---- MODULE Spec2Model ----
(***************************************************************************)
(* State-machine model of keygen.go of package dns:                        *)
(*   (r *RR_DNSKEY) Generate(bits int) (PrivateKey, error)                 *)
(*   (r *RR_DNSKEY) PrivateKeyString(p PrivateKey) (s string)              *)
(*                                                                         *)
(* A record r is the pair (alg[r], pub[r]).  A Generate call on r walks    *)
(* through the statements of the function: the size switch (lines 23-40),  *)
(* the dispatch switch with the call of the crypto generator (42-47,       *)
(* 50-61, 64-65) and the store of the public key with the return (48-49,   *)
(* 62-63).  Calls on distinct records interleave at that granularity.      *)
(* PrivateKeyString has no suspension point and is one action.             *)
(*                                                                         *)
(* Key material is scaled down: the primes of an RSA key are drawn from    *)
(* the first NumPrimes entries of PrimeList, an ECDSA key from NumScalars  *)
(* scalars.  All the arithmetic of the export is done on these numbers as  *)
(* the code does it on big.Int values.                                     *)
(***************************************************************************)
EXTENDS Integers, Sequences, FiniteSets, TLC

VARIABLES
    alg,       \* alg[r]: r.Algorithm
    pub,       \* pub[r]: r.PublicKey, the public-key payload of the record
    pc,        \* pc[r]: position of the Generate call running on r
    bits,      \* bits[r]: the argument of the current / last Generate call
    priv,      \* priv[r]: the local variable priv of the running call
    ret,       \* ret[r]: what the last finished Generate call returned
    usedRand,  \* usedRand[r]: the current / last call has read rand.Reader
    entry,     \* entry[r]: the record as it was when the call was entered
    held,      \* held[r]: key returned by the most recent successful call
    text,      \* text[r]: result of the last PrivateKeyString call on r
    textArg,   \* textArg[r]: its argument p, and the record it was given
    negExp,    \* what big.Int.Exp of the toolchain does with y < 0
    last       \* the method the last step belonged to

vars == <<alg, pub, pc, bits, priv, ret, usedRand, entry, held, text, textArg, negExp, last>>

(* ------------------------------ bounds --------------------------------- *)

NumRecs == 2
NumPrimes == 2
NumExportPrimes == 4
NumScalars == 2

(* ---------------------------- algorithms ------------------------------- *)

RSAMD5 == "RSAMD5"
RSASHA1 == "RSASHA1"
RSASHA256 == "RSASHA256"
RSASHA512 == "RSASHA512"
RSASHA1NSEC3SHA1 == "RSASHA1NSEC3SHA1"
ECDSAP256SHA256Y == "ECDSAP256SHA256Y"
ECDSAP384SHA384Y == "ECDSAP384SHA384Y"

\* Values of the uint8 Algorithm field that no case of either switch names.
OtherAlgorithms == {"DSA", "ECCGOST"}

Algorithms ==
    {RSAMD5, RSASHA1, RSASHA256, RSASHA512, RSASHA1NSEC3SHA1,
     ECDSAP256SHA256Y, ECDSAP384SHA384Y} \cup OtherAlgorithms

ErrKeySize == "ErrKeySize"
ErrAlg == "ErrAlg"
\* The error rsa.GenerateKey / ecdsa.GenerateKey returns when it fails.
ErrGenerate == "crypto error"
NoErr == "nil"

NilKey == [kind |-> "nil"]
\* A PrivateKey (interface{}) holding something that is no crypto key.
ForeignKey == [kind |-> "foreign"]

(* ----------------------------- arithmetic ------------------------------ *)

RECURSIVE Pow(_, _)
Pow(x, n) == IF n = 0 THEN 1 ELSE x * Pow(x, n - 1)

\* big.Int.ModInverse(g, n) for g, n coprime, n > 1: the inverse in [1, n-1].
ModInverse(g, n) == CHOOSE x \in 0 .. (n - 1) : (g * x) % n = 1 % n

\* big.Int.Bytes(): the big-endian bytes of |x|, none for 0.
RECURSIVE Bytes(_)
Bytes(x) == IF x = 0 THEN <<>> ELSE Append(Bytes(x \div 256), x % 256)

(* --------------------------- key generation ---------------------------- *)

\* Small odd primes standing for the primes rsa.GenerateKey finds.
PrimeList == <<5, 7, 11, 13, 17, 19>>

\* The primes a Generate call can find, and the primes of the keys a
\* caller can hand to PrivateKeyString.
Primes == {PrimeList[i] : i \in 1 .. NumPrimes}

ExportPrimes == {PrimeList[i] : i \in 1 .. NumExportPrimes}

\* rsa.GenerateKey always uses this public exponent.
PublicExponent == 65537

\* The key rsa.GenerateKey returns when its prime search ends on p and q.
RSAKey(p, q) ==
    [kind |-> "rsa", N |-> p * q, E |-> PublicExponent,
     D |-> ModInverse(PublicExponent % ((p - 1) * (q - 1)), (p - 1) * (q - 1)),
     P0 |-> p, P1 |-> q]

RSAKeys(ps) == {RSAKey(pq[1], pq[2]) : pq \in {pq \in ps \X ps : pq[1] # pq[2]}}

\* Mutant: the inner switch selects P-256 for both ECDSA algorithms.
CurveAlwaysP256(a) == "P256"

\* The curve the inner switch selects.
CurveOf(a) == IF a = ECDSAP256SHA256Y THEN "P256" ELSE "P384"

\* The key ecdsa.GenerateKey returns for curve c when it draws the scalar d;
\* the public point stands for d*G on c.
ECDSAKey(c, d) ==
    [kind |-> "ecdsa", Curve |-> c, D |-> d,
     X |-> IF c = "P256" THEN 2 * d ELSE 3 * d,
     Y |-> IF c = "P256" THEN 2 * d + 1 ELSE 3 * d + 1]

ECDSAKeys(c) == {ECDSAKey(c, d) : d \in 1 .. NumScalars}

(* ----------------------- public-key encoders --------------------------- *)

\* r.setPublicKeyRSA(e, n): the exponent, prefixed by its length, then the modulus.
setPublicKeyRSA(e, n) == <<Len(Bytes(e))>> \o Bytes(e) \o Bytes(n)

\* r.setPublicKeyCurve(x, y): the two coordinates, one after the other.
setPublicKeyCurve(x, y) == Bytes(x) \o Bytes(y)

\* The payload of a record whose public key was never set.
NoPublicKey == <<>>

(* ------------------------------ Generate ------------------------------- *)

RSAAlgorithms == {RSAMD5, RSASHA1, RSASHA256, RSASHA512, RSASHA1NSEC3SHA1}

ECDSAAlgorithms == {ECDSAP256SHA256Y, ECDSAP384SHA384Y}

\* Mutant: RSASHA512 shares the case of the other RSA algorithms.
SizeSwitchOneRange(a, b) ==
    CASE a \in {RSAMD5, RSASHA1, RSASHA256, RSASHA512, RSASHA1NSEC3SHA1} ->
           ~(b < 512 \/ b > 4096)
      [] a = ECDSAP256SHA256Y -> ~(b # 256)
      [] a = ECDSAP384SHA384Y -> ~(b # 384)
      [] OTHER -> TRUE

\* Mutant: the first switch has a default case that applies the RSA range.
SizeSwitchDefaultChecks(a, b) ==
    CASE a = RSASHA512 -> ~(b < 1024 \/ b > 4096)
      [] a = ECDSAP256SHA256Y -> ~(b # 256)
      [] a = ECDSAP384SHA384Y -> ~(b # 384)
      [] OTHER -> ~(b < 512 \/ b > 4096)

\* The first switch: TRUE when control falls through to the second switch,
\* FALSE when a case returns nil, ErrKeySize.
SizeSwitchPasses(a, b) ==
    CASE a \in {RSAMD5, RSASHA1, RSASHA256, RSASHA1NSEC3SHA1} -> ~(b < 512 \/ b > 4096)
      [] a = RSASHA512 -> ~(b < 1024 \/ b > 4096)
      [] a = ECDSAP256SHA256Y -> ~(b # 256)
      [] a = ECDSAP384SHA384Y -> ~(b # 384)
      [] OTHER -> TRUE

\* Values of the argument bits: every limit of the size switch with both of
\* its neighbours, zero and a negative int.
BitsChoices ==
    {-1, 0, 255, 256, 257, 383, 384, 385, 511, 512, 513,
     1023, 1024, 1025, 4095, 4096, 4097}

NoRet == [key |-> NilKey, err |-> "none"]

\* return k, e
Return(r, k, e) ==
    /\ ret' = [ret EXCEPT ![r] = [key |-> k, err |-> e]]
    /\ pc' = [pc EXCEPT ![r] = "idle"]

\* Mutant: Generate clears r.PublicKey on entry.
GenerateCallClears(r, b) ==
    /\ pc[r] = "idle"
    /\ last' = "Generate"
    /\ pc' = [pc EXCEPT ![r] = "size"]
    /\ bits' = [bits EXCEPT ![r] = b]
    /\ ret' = [ret EXCEPT ![r] = NoRet]
    /\ priv' = [priv EXCEPT ![r] = NilKey]
    /\ usedRand' = [usedRand EXCEPT ![r] = FALSE]
    /\ entry' = [entry EXCEPT ![r] = [alg |-> alg[r], pub |-> pub[r]]]
    /\ pub' = [pub EXCEPT ![r] = NoPublicKey]
    /\ UNCHANGED <<alg, held, text, textArg, negExp>>

\* The caller enters r.Generate(b).
GenerateCall(r, b) ==
    /\ pc[r] = "idle"
    /\ last' = "Generate"
    /\ pc' = [pc EXCEPT ![r] = "size"]
    /\ bits' = [bits EXCEPT ![r] = b]
    /\ ret' = [ret EXCEPT ![r] = NoRet]
    /\ priv' = [priv EXCEPT ![r] = NilKey]
    /\ usedRand' = [usedRand EXCEPT ![r] = FALSE]
    /\ entry' = [entry EXCEPT ![r] = [alg |-> alg[r], pub |-> pub[r]]]
    /\ UNCHANGED <<alg, pub, held, text, textArg, negExp>>

\* Mutant: the key is generated first and the size is checked afterwards.
SizeSwitchAfterGenerate(r) ==
    /\ pc[r] = "size"
    /\ last' = "Generate"
    /\ usedRand' = [usedRand EXCEPT ![r] = TRUE]
    /\ IF SizeSwitchPasses(alg[r], bits[r])
       THEN /\ pc' = [pc EXCEPT ![r] = "dispatch"]
            /\ ret' = ret
       ELSE Return(r, NilKey, ErrKeySize)
    /\ UNCHANGED <<alg, pub, bits, priv, entry, held, text, textArg, negExp>>

\* Lines 23-40.
SizeSwitch(r) ==
    /\ pc[r] = "size"
    /\ last' = "Generate"
    /\ IF SizeSwitchPasses(alg[r], bits[r])
       THEN /\ pc' = [pc EXCEPT ![r] = "dispatch"]
            /\ ret' = ret
       ELSE Return(r, NilKey, ErrKeySize)
    /\ UNCHANGED <<alg, pub, bits, priv, usedRand, entry, held, text, textArg, negExp>>

\* Lines 43-47: rsa.GenerateKey(rand.Reader, bits) fails, or returns a key
\* of the set keys.
RSABranch(r, keys) ==
    /\ pc[r] = "dispatch"
    /\ last' = "Generate"
    /\ alg[r] \in RSAAlgorithms
    /\ usedRand' = [usedRand EXCEPT ![r] = TRUE]
    /\ \/ /\ Return(r, NilKey, ErrGenerate)
          /\ priv' = priv
       \/ \E k \in keys :
            /\ priv' = [priv EXCEPT ![r] = k]
            /\ pc' = [pc EXCEPT ![r] = "store"]
            /\ ret' = ret
    /\ UNCHANGED <<alg, pub, bits, entry, held, text, textArg, negExp>>

\* Lines 50-61: ecdsa.GenerateKey(c, rand.Reader) on the curve of the
\* algorithm fails, or returns the key of a scalar of the set scalars.
ECDSABranch(r, scalars) ==
    /\ pc[r] = "dispatch"
    /\ last' = "Generate"
    /\ alg[r] \in ECDSAAlgorithms
    /\ usedRand' = [usedRand EXCEPT ![r] = TRUE]
    /\ \/ /\ Return(r, NilKey, ErrGenerate)
          /\ priv' = priv
       \/ \E d \in scalars :
            /\ priv' = [priv EXCEPT ![r] = ECDSAKey(CurveOf(alg[r]), d)]
            /\ pc' = [pc EXCEPT ![r] = "store"]
            /\ ret' = ret
    /\ UNCHANGED <<alg, pub, bits, entry, held, text, textArg, negExp>>

\* Lines 64-65.
DefaultBranch(r) ==
    /\ pc[r] = "dispatch"
    /\ last' = "Generate"
    /\ alg[r] \notin RSAAlgorithms \cup ECDSAAlgorithms
    /\ Return(r, NilKey, ErrAlg)
    /\ UNCHANGED <<alg, pub, bits, priv, usedRand, entry, held, text, textArg, negExp>>

\* Mutant: the encoder writes a record shared by all calls.
StoreTargetShared(r) == 1

\* The record whose public key the store of the call on r writes.
StoreTarget(r) == r

\* Lines 48-49 and 62-63: the encoder writes r.PublicKey, priv is returned.
StoreAndReturn(r) ==
    /\ pc[r] = "store"
    /\ last' = "Generate"
    /\ pub' = [pub EXCEPT ![StoreTarget(r)] =
                 IF priv[r].kind = "rsa"
                 THEN setPublicKeyRSA(priv[r].E, priv[r].N)
                 ELSE setPublicKeyCurve(priv[r].X, priv[r].Y)]
    /\ Return(r, priv[r], NoErr)
    /\ held' = [held EXCEPT ![r] = priv[r]]
    /\ UNCHANGED <<alg, bits, priv, usedRand, entry, text, textArg, negExp>>

(* -------------------------- PrivateKeyString --------------------------- *)

\* unpackBase64(b): base64.StdEncoding of b, as the indices of its
\* characters in the alphabet, 64 for the padding character.
RECURSIVE unpackBase64(_)
unpackBase64(b) ==
    IF Len(b) = 0 THEN <<>>
    ELSE IF Len(b) = 1 THEN <<b[1] \div 4, (b[1] % 4) * 16, 64, 64>>
    ELSE IF Len(b) = 2
         THEN <<b[1] \div 4, (b[1] % 4) * 16 + b[2] \div 16, (b[2] % 16) * 4, 64>>
    ELSE <<b[1] \div 4, (b[1] % 4) * 16 + b[2] \div 16,
           (b[2] % 16) * 4 + b[3] \div 64, b[3] % 64>>
         \o unpackBase64(SubSeq(b, 4, Len(b)))

\* big.Int.Mod(x, y) for y > 0: the Euclidean modulus.
Mod(x, y) == x % y

\* big.Int.Exp(x, y, m) for m > 0.  With y < 0 math/big of Go 1.12 and later
\* raises the inverse of x modulo m to |y|; before, y <= 0 gives 1.
Exp(x, y, m) ==
    IF y >= 0 THEN Pow(x, y) % m
    ELSE IF negExp = "inverse" THEN Pow(ModInverse(x % m, m), 0 - y) % m
    ELSE 1 % m

\* Mutant: the line is not terminated.
LineNoNewline(label, value) == [label |-> label, value |-> value, nl |-> FALSE]

\* label + ": " + value + "\n"
Line(label, value) == [label |-> label, value |-> value, nl |-> TRUE]

\* r.PrivateKeyString(p), r.Algorithm being a: the pieces of the string s,
\* in order.  No case of the type switch assigns s for a p that is neither
\* *rsa.PrivateKey nor *ecdsa.PrivateKey.
PrivateKeyString(a, p) ==
    CASE p.kind = "rsa" ->
           LET p_1 == p.P0 - 1
               q_1 == p.P1 - 1
               exp1 == Mod(p.D, p_1)
               exp2 == Mod(p.D, q_1)
               coeff == Exp(p.P1, -1, p.P0)
           IN  << Line("Private-key-format", <<"v1.3">>),
                  Line("Algorithm", <<a>>),
                  Line("Modules", unpackBase64(Bytes(p.N))),
                  Line("PublicExponent", unpackBase64(Bytes(p.E))),
                  Line("PrivateExponent", unpackBase64(Bytes(p.D))),
                  Line("Prime1", unpackBase64(Bytes(p.P0))),
                  Line("Prime2", unpackBase64(Bytes(p.P1))),
                  Line("Exponent1", unpackBase64(Bytes(exp1))),
                  Line("Exponent2", unpackBase64(Bytes(exp2))),
                  Line("Coefficient", unpackBase64(Bytes(coeff))) >>
      [] p.kind = "ecdsa" -> << [label |-> "TODO", value |-> <<>>, nl |-> FALSE] >>
      [] OTHER -> <<>>

NoArg == [alg |-> "none", key |-> NilKey]

\* Every value a caller can pass as p.
KeyArgs ==
    RSAKeys(ExportPrimes) \cup ECDSAKeys("P256") \cup ECDSAKeys("P384")
        \cup {NilKey, ForeignKey}

\* Mutant: exp1 is computed in place, t.D.Mod(t.D, p_1), on the key the
\* caller holds.
PrivateKeyStringCallInPlace(r, p) ==
    /\ pc[r] = "idle"
    /\ last' = "PrivateKeyString"
    /\ text' = [text EXCEPT ![r] = PrivateKeyString(alg[r], p)]
    /\ textArg' = [textArg EXCEPT ![r] = [alg |-> alg[r], key |-> p]]
    /\ held' = [held EXCEPT ![r] =
                  IF p.kind = "rsa" /\ held[r] = p
                  THEN [p EXCEPT !.D = Mod(p.D, p.P0 - 1)]
                  ELSE held[r]]
    /\ UNCHANGED <<alg, pub, pc, bits, priv, ret, usedRand, entry, negExp>>

\* The caller calls r.PrivateKeyString(p).
PrivateKeyStringCall(r, p) ==
    /\ pc[r] = "idle"
    /\ last' = "PrivateKeyString"
    /\ text' = [text EXCEPT ![r] = PrivateKeyString(alg[r], p)]
    /\ textArg' = [textArg EXCEPT ![r] = [alg |-> alg[r], key |-> p]]
    /\ UNCHANGED <<alg, pub, pc, bits, priv, ret, usedRand, entry, held, negExp>>

(* --------------------------- specifications ---------------------------- *)

\* A payload a record can hold before its first Generate call.
EarlierPublicKey == setPublicKeyRSA(PublicExponent, PrimeList[4] * PrimeList[5])

InitOn(R, A, P) ==
    /\ alg \in [R -> A]
    /\ pub \in [R -> P]
    /\ pc = [r \in R |-> "idle"]
    /\ bits = [r \in R |-> 0]
    /\ priv = [r \in R |-> NilKey]
    /\ ret = [r \in R |-> NoRet]
    /\ usedRand = [r \in R |-> FALSE]
    /\ entry = [r \in R |-> [alg |-> alg[r], pub |-> pub[r]]]
    /\ held = [r \in R |-> NilKey]
    /\ text = [r \in R |-> <<>>]
    /\ textArg = [r \in R |-> NoArg]
    /\ negExp \in {"one", "inverse"}
    /\ last = "none"

Recs == DOMAIN alg

\* One record, every algorithm and every size; Generate and PrivateKeyString
\* are called in any order, PrivateKeyString with the key the caller holds
\* from Generate or with something that is no key.
Init == InitOn({1}, Algorithms, {NoPublicKey, EarlierPublicKey})

Next ==
    \/ \E r \in Recs, b \in BitsChoices : GenerateCall(r, b)
    \/ \E r \in Recs : SizeSwitch(r)
    \/ \E r \in Recs : RSABranch(r, RSAKeys(Primes))
    \/ \E r \in Recs : ECDSABranch(r, 1 .. NumScalars)
    \/ \E r \in Recs : DefaultBranch(r)
    \/ \E r \in Recs : StoreAndReturn(r)
    \/ \E r \in Recs : \E p \in {held[r], NilKey, ForeignKey} : PrivateKeyStringCall(r, p)

Spec == Init /\ [][Next]_vars

\* One record of every algorithm; PrivateKeyString is called with every
\* kind of key, whether it fits the record or not.
InitExport == InitOn({1}, Algorithms, {NoPublicKey})

NextExport == \E r \in Recs, p \in KeyArgs : PrivateKeyStringCall(r, p)

SpecExport == InitExport /\ [][NextExport]_vars

\* NumRecs records, each with a Generate call of its own running at the same
\* time as the others; one algorithm of each kind, one accepted and one
\* rejected size, two keys.
ConcAlgorithms == {RSASHA256, ECDSAP256SHA256Y, "DSA"}

ConcBits == {256, 512}

ConcKeys == {RSAKey(PrimeList[1], PrimeList[2]), RSAKey(PrimeList[2], PrimeList[1])}

InitConc == InitOn(1 .. NumRecs, ConcAlgorithms, {NoPublicKey})

NextConc ==
    \/ \E r \in Recs, b \in ConcBits : GenerateCall(r, b)
    \/ \E r \in Recs : SizeSwitch(r)
    \/ \E r \in Recs : RSABranch(r, ConcKeys)
    \/ \E r \in Recs : ECDSABranch(r, {1})
    \/ \E r \in Recs : DefaultBranch(r)
    \/ \E r \in Recs : StoreAndReturn(r)

SpecConc == InitConc /\ [][NextConc]_vars

(* ------------------------------ properties ----------------------------- *)

RecognizedAlgorithms == RSAAlgorithms \cup ECDSAAlgorithms

\* A Generate call on r has returned and none has been entered since.
Finished(r) == pc[r] = "idle" /\ ret[r].err # "none"

\* The sizes the specification accepts for a recognized algorithm.
AcceptedBits(a) ==
    CASE a \in {RSAMD5, RSASHA1, RSASHA256, RSASHA1NSEC3SHA1} -> 512 .. 4096
      [] a = RSASHA512 -> 1024 .. 4096
      [] a = ECDSAP256SHA256Y -> {256}
      [] a = ECDSAP384SHA384Y -> {384}

\* The payload of a record of algorithm a is the encoding of key k.
PayloadMatches(a, k, payload) ==
    CASE a \in RSAAlgorithms ->
           k.kind = "rsa" /\ payload = setPublicKeyRSA(k.E, k.N)
      [] a = ECDSAP256SHA256Y ->
           k.kind = "ecdsa" /\ k.Curve = "P256" /\ payload = setPublicKeyCurve(k.X, k.Y)
      [] a = ECDSAP384SHA384Y ->
           k.kind = "ecdsa" /\ k.Curve = "P384" /\ payload = setPublicKeyCurve(k.X, k.Y)
      [] OTHER -> FALSE

\* C1: for a recognized algorithm, a Generate call returns ErrKeySize exactly
\* when bits is outside the accepted set of the algorithm (512..4096,
\* 1024..4096 for RSASHA512, 256, 384); the limits pass and their outer
\* neighbours are rejected.
C1_KeySizeExactlyOutside ==
    \A r \in Recs :
        Finished(r) /\ alg[r] \in RecognizedAlgorithms =>
            (ret[r].err = ErrKeySize <=> bits[r] \notin AcceptedBits(alg[r]))

C1_Witness ==
    \E r \in Recs :
        /\ Finished(r) /\ alg[r] = RSASHA512
        /\ bits[r] = 1023 /\ ret[r].err = ErrKeySize

\* C2: with an Algorithm that is none of the seven recognized ones, Generate
\* returns ErrAlg whatever bits is, never ErrKeySize and never a key, and it
\* never reads the random source.
C2_UnsupportedAlgorithm ==
    \A r \in Recs :
        alg[r] \notin RecognizedAlgorithms =>
            /\ ~usedRand[r]
            /\ ret[r].key = NilKey
            /\ held[r] = NilKey
            /\ Finished(r) => ret[r].err = ErrAlg

C2_Witness ==
    \E r \in Recs :
        /\ Finished(r) /\ alg[r] \notin RecognizedAlgorithms
        /\ bits[r] = 0 /\ ret[r].err = ErrAlg

\* C3: when Generate has returned an error (ErrKeySize, ErrAlg or the error
\* of the key generator), the Algorithm and the public-key payload of the
\* record are what they were when the call was entered.
C3_ErrorLeavesRecord ==
    \A r \in Recs :
        Finished(r) /\ ret[r].err # NoErr =>
            pub[r] = entry[r].pub /\ alg[r] = entry[r].alg

C3_Witness ==
    \E r \in Recs :
        /\ Finished(r) /\ ret[r].err = ErrGenerate
        /\ held[r] # NilKey /\ PayloadMatches(alg[r], held[r], pub[r])

\* C4: the random source is read only in a call whose size check has passed
\* for the Algorithm of the record; a call that returns ErrKeySize has not
\* called either key generator.
C4_SizeCheckBeforeRandom ==
    \A r \in Recs :
        /\ usedRand[r] =>
               /\ alg[r] \in RecognizedAlgorithms
               /\ bits[r] \in AcceptedBits(alg[r])
               /\ pc[r] # "size"
        /\ ret[r].err = ErrKeySize => ~usedRand[r] /\ priv[r] = NilKey

C4_Witness ==
    \E r \in Recs : pc[r] = "store" /\ usedRand[r] /\ bits[r] = 4096

\* The labels of the emitted text format, in order.
FormatLabels ==
    <<"Private-key-format", "Algorithm", "Modules", "PublicExponent",
      "PrivateExponent", "Prime1", "Prime2", "Exponent1", "Exponent2",
      "Coefficient">>

\* PrivateKeyString was last called on r with an RSA key.
ExportedRSA(r) == textArg[r] # NoArg /\ textArg[r].key.kind = "rsa"

\* The value of the line labelled l of the text t.
ValueOf(t, l) == t[CHOOSE i \in 1 .. Len(t) : t[i].label = l].value

\* The "Key: Value" lines of the text t.
KeyValueLines(t) == SelectSeq(t, LAMBDA x : x.nl)

C6_ExactlyNineLines ==
    \A r \in Recs :
        ExportedRSA(r) =>
            /\ text[r][1] = [label |-> "Private-key-format", value |-> <<"v1.3">>, nl |-> TRUE]
            /\ Len(KeyValueLines(text[r])) = 9

\* C6 as amended: the text of an RSA key begins with the line
\* "Private-key-format: v1.3" and holds exactly ten "Key: Value" lines, the
\* format line and nine more, each ended by a newline, labelled in this order:
\* Private-key-format, Algorithm, Modules, PublicExponent, PrivateExponent,
\* Prime1, Prime2, Exponent1, Exponent2, Coefficient.
C6_TenLinesInOrder ==
    \A r \in Recs :
        ExportedRSA(r) =>
            /\ Len(text[r]) = 10
            /\ text[r][1] = [label |-> "Private-key-format", value |-> <<"v1.3">>, nl |-> TRUE]
            /\ KeyValueLines(text[r]) = text[r]
            /\ [i \in 1 .. Len(text[r]) |-> text[r][i].label] = FormatLabels

C6_Witness ==
    \E r \in Recs :
        /\ ExportedRSA(r)
        /\ Len(text[r]) = 10
        /\ text[r][3].label = "Modules"
        /\ textArg[r].alg = RSASHA256

\* C7: PrivateKeyString never returns the empty string, in particular not for
\* a key that is neither an RSA nor an ECDSA private key (nil included).
C7_NeverEmptyString ==
    \A r \in Recs : textArg[r] # NoArg => Len(text[r]) > 0

\* C8: Generate never changes the Algorithm of a record; the payload changes
\* only in the step in which a call returns a key, and from then on it is the
\* encoding, by the encoder of the family of the Algorithm, of the key the
\* most recent successful call returned (on P-256 for ECDSAP256SHA256Y, on
\* P-384 for ECDSAP384SHA384Y); before any success it is the initial payload.
C8_PayloadMatchesAlgorithm ==
    /\ [](\A r \in Recs : held[r] # NilKey => PayloadMatches(alg[r], held[r], pub[r]))
    /\ [][\A r \in Recs :
            /\ alg'[r] = alg[r]
            /\ (pub'[r] # pub[r] \/ held'[r] # held[r]) =>
                   /\ pc[r] = "store" /\ pc'[r] = "idle"
                   /\ ret'[r] = [key |-> held'[r], err |-> NoErr]
                   /\ PayloadMatches(alg[r], held'[r], pub'[r])]_vars

C8_Witness ==
    \E r \in Recs :
        /\ alg[r] = ECDSAP384SHA384Y
        /\ Finished(r) /\ ret[r].err = NoErr
        /\ held[r].kind = "ecdsa" /\ held[r].Curve = "P384"
        /\ pub[r] = setPublicKeyCurve(held[r].X, held[r].Y)

\* C9: a PrivateKeyString call changes neither a record (Algorithm, payload)
\* nor a component of a private key, nor the state of a Generate call, and a
\* call with the record and the key of the previous call returns the text
\* the previous call returned, whatever Generate did in between.
C9_PrivateKeyStringPure ==
    [][last' = "PrivateKeyString" =>
          /\ UNCHANGED <<alg, pub, held, priv, ret, pc, bits, usedRand, entry, negExp>>
          /\ \A r \in Recs : textArg'[r] = textArg[r] => text'[r] = text[r]]_vars

C9_Witness ==
    \E r \in Recs :
        /\ last = "PrivateKeyString"
        /\ ExportedRSA(r) /\ textArg[r].key = held[r]
        /\ Len(text[r]) = 10

\* What a Generate call on a record of algorithm a with argument b can
\* return when it runs alone.
SoloErrors(a, b) ==
    IF a \notin RecognizedAlgorithms THEN {ErrAlg}
    ELSE IF b \notin AcceptedBits(a) THEN {ErrKeySize}
    ELSE {ErrGenerate, NoErr}

\* C10: with Generate calls running at the same time on distinct records,
\* every step touches the record and the call state of one record only, a
\* finished call has an outcome it can have alone, the payload of a record
\* whose call returned a key is the encoding of that key, and a record whose
\* call failed is as it was when the call was entered.
C10_ConcurrentCallsIndependent ==
    /\ [](\A r \in Recs :
            Finished(r) =>
                /\ ret[r].err \in SoloErrors(alg[r], bits[r])
                /\ ret[r].err = NoErr => PayloadMatches(alg[r], ret[r].key, pub[r])
                /\ ret[r].err # NoErr => pub[r] = entry[r].pub /\ ret[r].key = NilKey)
    /\ [][\E r \in Recs : \A o \in Recs \ {r} :
            /\ alg'[o] = alg[o] /\ pub'[o] = pub[o] /\ pc'[o] = pc[o]
            /\ bits'[o] = bits[o] /\ priv'[o] = priv[o] /\ ret'[o] = ret[o]
            /\ usedRand'[o] = usedRand[o] /\ entry'[o] = entry[o]
            /\ held'[o] = held[o]]_vars

C10_Witness ==
    \E r \in Recs, o \in Recs :
        /\ r # o /\ alg[r] = alg[o]
        /\ pc[o] = "store"
        /\ Finished(r) /\ ret[r].err = NoErr /\ ret[r].key # priv[o]
        /\ PayloadMatches(alg[r], ret[r].key, pub[r])

====
